---- MODULE Spec2Model ----
(***************************************************************************)
(* Model of the two AWS facades of aws-clients-typescript:                 *)
(*   SqsQueue  (src/clients/sqs-queue.ts)  and                             *)
(*   S3Bucket  (src/clients/s3-bucket.ts).                                 *)
(*                                                                         *)
(* Every invocation of a facade method is a small process.  Its first      *)
(* action is the code up to the first await, which issues an underlying    *)
(* call.  Each later action is one settlement of the pending call by the   *)
(* service (or helper) together with the facade code that runs on it: the  *)
(* code after the await, or the catch block.  The services and helpers are *)
(* the environment: each call may succeed or fail with an error of either  *)
(* kind.  The process may stop in any state: no action is ever forced.     *)
(***************************************************************************)
EXTENDS Integers, Sequences, FiniteSets, TLC

\* ---------------------------------------------------------------- bounds
\* Number of distinct received messages the callers hold.
MaxMsgs == 2

\* Concurrent invocations on the one facade instance.
Procs == {"p1", "p2"}

\* ------------------------------------------------------------- constants
\* DelaySeconds of rescheduleMessage.
RescheduleDelay == 30
\* Default expiresIn of the two pre-signed URL methods.
DefaultExpiresIn == 900
\* WaitTimeSeconds of receiveMessage.
WaitTimeSeconds == 20
\* Default maxNumberOfMessages of receiveMessage.
DefaultMaxNumberOfMessages == 10
\* Default maxKeys of listObjects.
DefaultMaxKeys == 1000
\* partSize handed to the transfer helper: 1024 * 1024 * 100.
PartSize == 104857600

\* ------------------------------------------------------------ value sets
\* A received Message: MessageId, ReceiptHandle, Body.
Message(i) == [MessageId |-> i, ReceiptHandle |-> <<"rh", i>>, Body |-> <<"body", i>>]
Messages == {Message(i) : i \in 1..MaxMsgs}
\* Bodies callers pass to sendMessage.
Bodies == {"Hello, SQS!"}
Keys == {"k1"}
\* The optional trailing expiresIn argument: omitted, or given.
ExpiresInArgs == {<<>>, <<60>>}
UploadBodies == {"string", "Buffer", "Readable"}

\* Error objects.  origin is the place that allocated the object, so two
\* records are equal exactly when they are the same object of one invocation.
NoErr == [type |-> "none"]
Err(type, message, cause, origin) ==
    [type |-> type, message |-> message, cause |-> cause, origin |-> origin]

\* new SqsQueueException(message, cause)
SqsQueueException(message, cause, origin) ==
    Err("SqsQueueException", message, cause, origin)

\* new S3BucketException(message, cause)
S3BucketException(message, cause, origin) ==
    Err("S3BucketException", message, cause, origin)

\* What a service client or a helper can raise: a plain Error, or an object
\* that already is an SqsQueueException (as the queue tests inject).
ClientErrors ==
    { Err("Error", "client failure", NoErr, "client"),
      SqsQueueException("Failed to delete message",
                        Err("Error", "Delete message failed", NoErr, "test"),
                        "client") }

\* logger.error(`${text}: ${error}`) and logger.warn(text)
LogError(text, error) == [level |-> "error", text |-> text, error |-> error]
LogWarn(text) == [level |-> "warn", text |-> text, error |-> NoErr]

VARIABLES
    sqsClient,           \* SqsQueue.sqsClient (readonly)
    queueUrl,            \* SqsQueue.queueUrl (readonly)
    deadLetterQueueUrl,  \* SqsQueue.deadLetterQueueUrl (readonly)
    s3Client,            \* S3Bucket.s3Client (readonly)
    bucketName,          \* S3Bucket.bucketName (readonly)
    op,       \* op[p]: the facade method invocation p is running
    arg,      \* arg[p]: its arguments
    pc,       \* pc[p]: "idle", "await", "resolved", "rejected"
    calls,    \* calls[p]: the underlying calls invocation p has issued
    log,      \* log[p]: the log entries invocation p has produced
    resp,     \* resp[p]: the response the invocation's result was taken from
    ret,      \* ret[p]: the value the invocation resolved with
    thrown,   \* thrown[p]: the error the invocation rejected with
    fault,    \* fault[p]: the error the failed underlying call raised
    primary,  \* messages still in the primary queue under their receipt
    dlq,      \* bodies delivered to the dead-letter queue
    delayed   \* bodies sent to the primary queue with a delay

config == <<sqsClient, queueUrl, deadLetterQueueUrl, s3Client, bucketName>>
service == <<primary, dlq, delayed>>
vars == <<sqsClient, queueUrl, deadLetterQueueUrl, s3Client, bucketName, op,
          arg, pc, calls, log, resp, ret, thrown, fault, primary, dlq, delayed>>

NoArg == [none |-> TRUE]
NoResp == [none |-> TRUE]
\* new SQSClient({ region }) and new S3Client({ region })
SQSClient == "SQSClient"
S3Client == "S3Client"
\* The queues and the bucket as the services know them.
PrimaryUrl == "https://sqs.region.amazonaws.com/123456789012/MyQueue"
DlqUrl == "https://sqs.region.amazonaws.com/123456789012/MyQueue-dlq"
Bucket == "testBucket"
Void == "void"

\* constructor(queueUrl, deadLetterQueueUrl) / constructor(region, bucketName)
Init ==
    /\ sqsClient = SQSClient
    /\ queueUrl = PrimaryUrl
    /\ deadLetterQueueUrl = DlqUrl
    /\ s3Client = S3Client
    /\ bucketName = Bucket
    /\ op = [p \in Procs |-> "none"]
    /\ arg = [p \in Procs |-> NoArg]
    /\ pc = [p \in Procs |-> "idle"]
    /\ calls = [p \in Procs |-> <<>>]
    /\ log = [p \in Procs |-> <<>>]
    /\ resp = [p \in Procs |-> NoResp]
    /\ ret = [p \in Procs |-> Void]
    /\ thrown = [p \in Procs |-> NoErr]
    /\ fault = [p \in Procs |-> NoErr]
    /\ primary = Messages
    /\ dlq = {}
    /\ delayed = {}

\* ------------------------------------------------------ shared plumbing
\* A caller starts method o with arguments a; the code up to the first
\* await issues underlying call c.
Begin(p, o, a, c) ==
    /\ pc[p] = "idle"
    /\ op' = [op EXCEPT ![p] = o]
    /\ arg' = [arg EXCEPT ![p] = a]
    /\ pc' = [pc EXCEPT ![p] = "await"]
    /\ calls' = [calls EXCEPT ![p] = <<c>>]
    /\ UNCHANGED <<config, service, log, resp, ret, thrown, fault>>

\* Invocation p of method o waits for its n-th underlying call.
Awaiting(p, o, n) ==
    pc[p] = "await" /\ op[p] = o /\ Len(calls[p]) = n

LastCall(p) == calls[p][Len(calls[p])]

\* The invocation's promise resolves with value v.
Resolve(p, v) ==
    /\ pc' = [pc EXCEPT ![p] = "resolved"]
    /\ ret' = [ret EXCEPT ![p] = v]
    /\ UNCHANGED <<config, op, arg, calls, log, resp, thrown, fault>>

\* const response = await ...; return <v made from response>
ResolveWith(p, response, v) ==
    /\ pc' = [pc EXCEPT ![p] = "resolved"]
    /\ resp' = [resp EXCEPT ![p] = response]
    /\ ret' = [ret EXCEPT ![p] = v]
    /\ UNCHANGED <<config, op, arg, calls, log, thrown, fault>>

\* The pending call failed with error e; the invocation's promise rejects
\* with error t after the log entries were written.
Reject(p, e, entries, t) ==
    /\ pc' = [pc EXCEPT ![p] = "rejected"]
    /\ fault' = [fault EXCEPT ![p] = e]
    /\ log' = [log EXCEPT ![p] = log[p] \o entries]
    /\ thrown' = [thrown EXCEPT ![p] = t]
    /\ UNCHANGED <<config, service, op, arg, calls, resp, ret>>

\* The facade issues the next underlying call c of the same invocation.
Issue(p, c) ==
    /\ calls' = [calls EXCEPT ![p] = Append(calls[p], c)]
    /\ UNCHANGED <<config, op, arg, pc, log, resp, ret, thrown, fault>>

\* ================================================== message-queue service
\* SendMessage accepted: the body reaches the addressed queue.
SqsSend(c) ==
    /\ dlq' = IF c.QueueUrl = DlqUrl THEN dlq \cup {c.MessageBody} ELSE dlq
    /\ delayed' = IF c.QueueUrl = PrimaryUrl /\ "DelaySeconds" \in DOMAIN c
                  THEN delayed \cup {c.MessageBody} ELSE delayed
    /\ UNCHANGED primary

\* DeleteMessage accepted: a message of the primary queue with this receipt
\* is removed.  Reuse of a consumed receipt is undefined: the service may
\* accept it as a no-op (or fail, as any call may).
SqsDelete(c) ==
    /\ primary' = {m \in primary :
                     ~(c.QueueUrl = PrimaryUrl /\ m.ReceiptHandle = c.ReceiptHandle)}
    /\ UNCHANGED <<dlq, delayed>>

\* ReceiveMessage answers: messages in the service's order (at most the
\* number asked for), an empty collection, or no collection at all.
SqsReceiveResponses(c) ==
    {[RequestId |-> "r"]}
    \cup {[Messages |-> s] :
            s \in {t \in {<<>>, <<Message(1)>>, <<Message(1), Message(2)>>,
                          <<Message(2), Message(1)>>} :
                      Len(t) <= c.MaxNumberOfMessages}}

\* ======================================================== SqsQueue facade
\* new SendMessageCommand({ QueueUrl, MessageBody })
SendMessageCommand(url, body) ==
    [cmd |-> "SendMessage", QueueUrl |-> url, MessageBody |-> body]

\* new SendMessageCommand({ QueueUrl, MessageBody, DelaySeconds })
SendMessageDelayedCommand(url, body, delay) ==
    [cmd |-> "SendMessage", QueueUrl |-> url, MessageBody |-> body,
     DelaySeconds |-> delay]

\* new DeleteMessageCommand({ QueueUrl, ReceiptHandle })
DeleteMessageCommand(url, receipt) ==
    [cmd |-> "DeleteMessage", QueueUrl |-> url, ReceiptHandle |-> receipt]

\* new ReceiveMessageCommand({ QueueUrl, MaxNumberOfMessages, WaitTimeSeconds })
ReceiveMessageCommand(url, max) ==
    [cmd |-> "ReceiveMessage", QueueUrl |-> url, MaxNumberOfMessages |-> max,
     WaitTimeSeconds |-> WaitTimeSeconds]

\* error instanceof SqsQueueException
InstanceOfSqsQueueException(error) == error.type = "SqsQueueException"

\* ---- sendMessage
\* Mutation: sendMessage addresses the dead-letter queue.
sendMessage_toDlq(p) ==
    \E body \in Bodies :
        Begin(p, "sendMessage", [messageBody |-> body],
              SendMessageCommand(deadLetterQueueUrl, body))

sendMessage(p) ==
    \E body \in Bodies :
        Begin(p, "sendMessage", [messageBody |-> body],
              SendMessageCommand(queueUrl, body))

sendMessage_catch(error) ==
    [entries |-> <<LogError("Failed to send message to SQS queue", error)>>,
     thrown |-> SqsQueueException("Failed to send message", error, "sendMessage")]

sendMessage_then(p) ==
    /\ Awaiting(p, "sendMessage", 1)
    /\ SqsSend(LastCall(p))
    /\ Resolve(p, Void)

sendMessage_fail(p) ==
    /\ Awaiting(p, "sendMessage", 1)
    /\ \E e \in ClientErrors :
        LET c == sendMessage_catch(e) IN Reject(p, e, c.entries, c.thrown)

\* ---- deleteMessage
deleteMessage(p) ==
    \E m \in Messages :
        Begin(p, "deleteMessage", [message |-> m],
              DeleteMessageCommand(queueUrl, m.ReceiptHandle))

\* Mutation: deleteMessage logs and lets the client's error through.
deleteMessage_catch_raw(error) ==
    [entries |-> <<LogError("Failed to delete message from SQS queue", error)>>,
     thrown |-> error]

deleteMessage_catch(error) ==
    [entries |-> <<LogError("Failed to delete message from SQS queue", error)>>,
     thrown |-> SqsQueueException("Failed to delete message", error, "deleteMessage")]

deleteMessage_then(p) ==
    /\ Awaiting(p, "deleteMessage", 1)
    /\ SqsDelete(LastCall(p))
    /\ Resolve(p, Void)

deleteMessage_fail(p) ==
    /\ Awaiting(p, "deleteMessage", 1)
    /\ \E e \in ClientErrors :
        LET c == deleteMessage_catch(e) IN Reject(p, e, c.entries, c.thrown)

\* ---- receiveMessage
receiveMessage(p) ==
    \E max \in {DefaultMaxNumberOfMessages} :
        Begin(p, "receiveMessage", [maxNumberOfMessages |-> max],
              ReceiveMessageCommand(queueUrl, max))

receiveMessage_catch(error) ==
    [entries |-> <<LogError("Failed to receive message from SQS queue", error)>>,
     thrown |-> SqsQueueException("Failed to receive message", error, "receiveMessage")]

\* Mutation: the received messages are handed back in reverse order.
receiveMessage_result_reversed(response) ==
    IF "Messages" \in DOMAIN response
    THEN [i \in 1..Len(response.Messages) |->
            response.Messages[Len(response.Messages) + 1 - i]]
    ELSE <<>>

\* response.Messages || []
receiveMessage_result(response) ==
    IF "Messages" \in DOMAIN response THEN response.Messages ELSE <<>>

receiveMessage_then(p) ==
    /\ Awaiting(p, "receiveMessage", 1)
    /\ UNCHANGED service
    /\ \E response \in SqsReceiveResponses(LastCall(p)) :
        ResolveWith(p, response, receiveMessage_result(response))

\* Mutation: a failed receive is swallowed and answered with no messages.
receiveMessage_fail_default(p) ==
    /\ Awaiting(p, "receiveMessage", 1)
    /\ \E e \in ClientErrors :
        /\ fault' = [fault EXCEPT ![p] = e]
        /\ log' = [log EXCEPT ![p] = log[p] \o receiveMessage_catch(e).entries]
    /\ pc' = [pc EXCEPT ![p] = "resolved"]
    /\ ret' = [ret EXCEPT ![p] = <<>>]
    /\ UNCHANGED <<config, service, op, arg, calls, resp, thrown>>

receiveMessage_fail(p) ==
    /\ Awaiting(p, "receiveMessage", 1)
    /\ \E e \in ClientErrors :
        LET c == receiveMessage_catch(e) IN Reject(p, e, c.entries, c.thrown)

\* ---- sendMessageToDlq
\* try { await this.deleteMessage(message) ... : the delete call is issued.
sendMessageToDlq(p) ==
    \E m \in Messages :
        Begin(p, "sendMessageToDlq", [message |-> m],
              DeleteMessageCommand(queueUrl, m.ReceiptHandle))

\* Mutation: the catch block has no instanceof branch and always wraps.
sendMessageToDlq_catch_rewrap(error) ==
    [entries |-> <<LogError("Failed to send message to SQS DLQ", error)>>,
     thrown |-> SqsQueueException("Failed to send message to DLQ", error,
                                  "sendMessageToDlq")]

sendMessageToDlq_catch(error) ==
    IF InstanceOfSqsQueueException(error)
    THEN [entries |-> <<LogWarn("Failed to send message to DLQ while deleting message from original queue")>>,
          thrown |-> error]
    ELSE [entries |-> <<LogError("Failed to send message to SQS DLQ", error)>>,
          thrown |-> SqsQueueException("Failed to send message to DLQ", error,
                                       "sendMessageToDlq")]

\* Mutation: the dead-letter send goes to the primary queue.
sendMessageToDlq_deleted_primary(p) ==
    /\ Awaiting(p, "sendMessageToDlq", 1)
    /\ SqsDelete(LastCall(p))
    /\ Issue(p, SendMessageCommand(queueUrl, arg[p].message.Body))

\* The delete succeeded and deleteMessage returned: the send to the
\* dead-letter queue is issued.
sendMessageToDlq_deleted(p) ==
    /\ Awaiting(p, "sendMessageToDlq", 1)
    /\ SqsDelete(LastCall(p))
    /\ Issue(p, SendMessageCommand(deadLetterQueueUrl, arg[p].message.Body))

\* Mutation: the send is issued although the delete call failed.
sendMessageToDlq_deleteFailed_sendAnyway(p) ==
    /\ Awaiting(p, "sendMessageToDlq", 1)
    /\ UNCHANGED service
    /\ Issue(p, SendMessageCommand(deadLetterQueueUrl, arg[p].message.Body))

\* The delete call failed: deleteMessage's catch, then the compound's catch.
sendMessageToDlq_deleteFailed(p) ==
    /\ Awaiting(p, "sendMessageToDlq", 1)
    /\ \E e \in ClientErrors :
        LET d == deleteMessage_catch(e)
            c == sendMessageToDlq_catch(d.thrown)
        IN Reject(p, e, d.entries \o c.entries, c.thrown)

sendMessageToDlq_sent(p) ==
    /\ Awaiting(p, "sendMessageToDlq", 2)
    /\ SqsSend(LastCall(p))
    /\ Resolve(p, Void)

\* Mutation: a failed send is compensated by putting the body back.
sendMessageToDlq_sendFailed_compensate(p) ==
    /\ Awaiting(p, "sendMessageToDlq", 2)
    /\ UNCHANGED service
    /\ Issue(p, SendMessageCommand(queueUrl, arg[p].message.Body))

sendMessageToDlq_sendFailed(p) ==
    /\ Awaiting(p, "sendMessageToDlq", 2)
    /\ \E e \in ClientErrors :
        LET c == sendMessageToDlq_catch(e) IN Reject(p, e, c.entries, c.thrown)

\* ---- rescheduleMessage
rescheduleMessage(p) ==
    \E m \in Messages :
        Begin(p, "rescheduleMessage", [message |-> m],
              DeleteMessageCommand(queueUrl, m.ReceiptHandle))

\* Mutation: a failed send is reported with deleteMessage's message.
rescheduleMessage_catch_deletemsg(error) ==
    IF InstanceOfSqsQueueException(error)
    THEN [entries |-> <<LogWarn("Failed to reschedule message while deleting message from queue")>>,
          thrown |-> error]
    ELSE [entries |-> <<LogError("Failed to reschedule message", error)>>,
          thrown |-> SqsQueueException("Failed to delete message", error,
                                       "rescheduleMessage")]

rescheduleMessage_catch(error) ==
    IF InstanceOfSqsQueueException(error)
    THEN [entries |-> <<LogWarn("Failed to reschedule message while deleting message from queue")>>,
          thrown |-> error]
    ELSE [entries |-> <<LogError("Failed to reschedule message", error)>>,
          thrown |-> SqsQueueException("Failed to reschedule message", error,
                                       "rescheduleMessage")]

\* Mutation: the re-send carries no delay.
rescheduleMessage_deleted_nodelay(p) ==
    /\ Awaiting(p, "rescheduleMessage", 1)
    /\ SqsDelete(LastCall(p))
    /\ Issue(p, SendMessageCommand(queueUrl, arg[p].message.Body))

rescheduleMessage_deleted(p) ==
    /\ Awaiting(p, "rescheduleMessage", 1)
    /\ SqsDelete(LastCall(p))
    /\ Issue(p, SendMessageDelayedCommand(queueUrl, arg[p].message.Body,
                                          RescheduleDelay))

\* Mutation: the delayed send is issued although the delete call failed.
rescheduleMessage_deleteFailed_resend(p) ==
    /\ Awaiting(p, "rescheduleMessage", 1)
    /\ UNCHANGED service
    /\ Issue(p, SendMessageDelayedCommand(queueUrl, arg[p].message.Body,
                                          RescheduleDelay))

rescheduleMessage_deleteFailed(p) ==
    /\ Awaiting(p, "rescheduleMessage", 1)
    /\ \E e \in ClientErrors :
        LET d == deleteMessage_catch(e)
            c == rescheduleMessage_catch(d.thrown)
        IN Reject(p, e, d.entries \o c.entries, c.thrown)

\* Mutation: the operation redirects the instance to the dead-letter queue.
rescheduleMessage_sent_redirect(p) ==
    /\ Awaiting(p, "rescheduleMessage", 2)
    /\ SqsSend(LastCall(p))
    /\ pc' = [pc EXCEPT ![p] = "resolved"]
    /\ ret' = [ret EXCEPT ![p] = Void]
    /\ queueUrl' = deadLetterQueueUrl
    /\ UNCHANGED <<sqsClient, deadLetterQueueUrl, s3Client, bucketName, op, arg,
                   calls, log, resp, thrown, fault>>

rescheduleMessage_sent(p) ==
    /\ Awaiting(p, "rescheduleMessage", 2)
    /\ SqsSend(LastCall(p))
    /\ Resolve(p, Void)

rescheduleMessage_sendFailed(p) ==
    /\ Awaiting(p, "rescheduleMessage", 2)
    /\ \E e \in ClientErrors :
        LET c == rescheduleMessage_catch(e) IN Reject(p, e, c.entries, c.thrown)

\* ================================================ object-storage service
\* What the object-storage client, the transfer helper and the URL-signing
\* helper raise.
S3Errors == { Err("Error", "client failure", NoErr, "client") }

\* ListObjectsV2 answers: no Contents, empty Contents, or the objects in the
\* service's order.
S3ListResponses ==
    { [KeyCount |-> 0], [Contents |-> <<>>],
      [Contents |-> <<[Key |-> "a/1"], [Key |-> "a/2"]>>],
      [Contents |-> <<[Key |-> "a/2"], [Key |-> "a/1"]>>] }

\* The URL the signing helper makes for a command and an expiry.
SignedUrl(c) == <<"url", c.command.cmd, c.command.Bucket, c.command.Key, c.expiresIn>>

\* ======================================================== S3Bucket facade
\* new ListObjectsV2Command({ Bucket, Prefix, MaxKeys })
ListObjectsV2Command(bucket, prefix, maxKeys) ==
    [cmd |-> "ListObjectsV2", Bucket |-> bucket, Prefix |-> prefix,
     MaxKeys |-> maxKeys]

\* new HeadObjectCommand / GetObjectCommand / DeleteObjectCommand /
\* PutObjectCommand ({ Bucket, Key })
ObjectCommand(cmd, bucket, key) == [cmd |-> cmd, Bucket |-> bucket, Key |-> key]

\* new Upload({ client, params: { Bucket, Key, Body }, partSize }).done()
Upload(client, bucket, key, body, partSize) ==
    [cmd |-> "Upload", client |-> client, Bucket |-> bucket, Key |-> key,
     Body |-> body, partSize |-> partSize]

\* getSignedUrl(this.s3Client, command, { expiresIn })
getSignedUrl(client, command, expiresIn) ==
    [cmd |-> "getSignedUrl", client |-> client, command |-> command,
     expiresIn |-> expiresIn]

\* ---- listObjects
listObjects(p) ==
    \E prefix \in {""}, maxKeys \in {DefaultMaxKeys} :
        Begin(p, "listObjects", [prefix |-> prefix, maxKeys |-> maxKeys],
              ListObjectsV2Command(bucketName, prefix, maxKeys))

listObjects_catch(error) ==
    [entries |-> <<LogError("Failed to list objects in S3", error)>>,
     thrown |-> S3BucketException("Failed to list objects in S3", error, "listObjects")]

\* response.Contents || []
listObjects_result(response) ==
    IF "Contents" \in DOMAIN response THEN response.Contents ELSE <<>>

listObjects_then(p) ==
    /\ Awaiting(p, "listObjects", 1)
    /\ UNCHANGED service
    /\ \E response \in S3ListResponses :
        ResolveWith(p, response, listObjects_result(response))

listObjects_fail(p) ==
    /\ Awaiting(p, "listObjects", 1)
    /\ \E e \in S3Errors :
        LET c == listObjects_catch(e) IN Reject(p, e, c.entries, c.thrown)

\* ---- headObject
headObject(p) ==
    \E key \in Keys :
        Begin(p, "headObject", [key |-> key],
              ObjectCommand("HeadObject", bucketName, key))

headObject_catch(error) ==
    [entries |-> <<LogError("Failed to head object from S3", error)>>,
     thrown |-> S3BucketException("Failed to head object from S3", error, "headObject")]

headObject_then(p) ==
    /\ Awaiting(p, "headObject", 1)
    /\ UNCHANGED service
    /\ Resolve(p, [ContentLength |-> 1])

headObject_fail(p) ==
    /\ Awaiting(p, "headObject", 1)
    /\ \E e \in S3Errors :
        LET c == headObject_catch(e) IN Reject(p, e, c.entries, c.thrown)

\* ---- uploadObject
uploadObject(p) ==
    \E key \in Keys, body \in UploadBodies :
        Begin(p, "uploadObject", [key |-> key, body |-> body],
              Upload(s3Client, bucketName, key, body, PartSize))

uploadObject_catch(error) ==
    [entries |-> <<LogError("Failed to upload object to S3", error)>>,
     thrown |-> S3BucketException("Failed to upload object to S3", error, "uploadObject")]

uploadObject_then(p) ==
    /\ Awaiting(p, "uploadObject", 1)
    /\ UNCHANGED service
    /\ Resolve(p, Void)

uploadObject_fail(p) ==
    /\ Awaiting(p, "uploadObject", 1)
    /\ \E e \in S3Errors :
        LET c == uploadObject_catch(e) IN Reject(p, e, c.entries, c.thrown)

\* ---- downloadObject
downloadObject(p) ==
    \E key \in Keys :
        Begin(p, "downloadObject", [key |-> key],
              ObjectCommand("GetObject", bucketName, key))

downloadObject_catch(error) ==
    [entries |-> <<LogError("Failed to download object from S3", error)>>,
     thrown |-> S3BucketException("Failed to download object from S3", error,
                                  "downloadObject")]

\* response.Body as Readable
downloadObject_then(p) ==
    /\ Awaiting(p, "downloadObject", 1)
    /\ UNCHANGED service
    /\ LET response == [Body |-> <<"stream", LastCall(p).Key>>]
       IN Resolve(p, response.Body)

downloadObject_fail(p) ==
    /\ Awaiting(p, "downloadObject", 1)
    /\ \E e \in S3Errors :
        LET c == downloadObject_catch(e) IN Reject(p, e, c.entries, c.thrown)

\* ---- deleteObject
deleteObject(p) ==
    \E key \in Keys :
        Begin(p, "deleteObject", [key |-> key],
              ObjectCommand("DeleteObject", bucketName, key))

\* Mutation: the wrapped error loses its cause.
deleteObject_catch_nocause(error) ==
    [entries |-> <<LogError("Failed to delete object from S3", error)>>,
     thrown |-> S3BucketException("Failed to delete object from S3", NoErr,
                                  "deleteObject")]

deleteObject_catch(error) ==
    [entries |-> <<LogError("Failed to delete object from S3", error)>>,
     thrown |-> S3BucketException("Failed to delete object from S3", error,
                                  "deleteObject")]

deleteObject_then(p) ==
    /\ Awaiting(p, "deleteObject", 1)
    /\ UNCHANGED service
    /\ Resolve(p, Void)

deleteObject_fail(p) ==
    /\ Awaiting(p, "deleteObject", 1)
    /\ \E e \in S3Errors :
        LET c == deleteObject_catch(e) IN Reject(p, e, c.entries, c.thrown)

\* ---- pre-signed URLs: plumbing shared by the two
\* Mutation: the given expiry is ignored.
expiresInParam_fixed(rest) == DefaultExpiresIn

\* expiresIn = 900 : the default applies when the argument is omitted.
expiresInParam(rest) == IF rest = <<>> THEN DefaultExpiresIn ELSE rest[1]

\* The helper threw inside the try block: the call was made, the catch block
\* ran, and the invocation is rejected without ever awaiting.
BeginThrew(p, o, a, c, e, entries, t) ==
    /\ pc[p] = "idle"
    /\ op' = [op EXCEPT ![p] = o]
    /\ arg' = [arg EXCEPT ![p] = a]
    /\ pc' = [pc EXCEPT ![p] = "rejected"]
    /\ calls' = [calls EXCEPT ![p] = <<c>>]
    /\ fault' = [fault EXCEPT ![p] = e]
    /\ log' = [log EXCEPT ![p] = entries]
    /\ thrown' = [thrown EXCEPT ![p] = t]
    /\ UNCHANGED <<config, service, resp, ret>>

\* ---- getPreSignedUrlDownload
\* try { ...; return getSignedUrl(...) } : the helper returned a promise, and
\* the async function returns it without awaiting it.
getPreSignedUrlDownload(p) ==
    \E key \in Keys, rest \in ExpiresInArgs :
        Begin(p, "getPreSignedUrlDownload", [key |-> key, expiresIn |-> rest],
              getSignedUrl(s3Client, ObjectCommand("GetObject", bucketName, key),
                           expiresInParam(rest)))

getPreSignedUrlDownload_catch(error) ==
    [entries |-> <<LogError("Failed to get pre-signed url for download", error)>>,
     thrown |-> S3BucketException("Failed to get pre-signed url for download",
                                  error, "getPreSignedUrlDownload")]

\* The helper threw synchronously: the catch block runs.
getPreSignedUrlDownload_threw(p) ==
    \E key \in Keys, rest \in ExpiresInArgs, e \in S3Errors :
        LET c == getPreSignedUrlDownload_catch(e)
        IN BeginThrew(p, "getPreSignedUrlDownload",
                      [key |-> key, expiresIn |-> rest],
                      getSignedUrl(s3Client, ObjectCommand("GetObject", bucketName, key),
                                   expiresInParam(rest)),
                      e, c.entries, c.thrown)

\* What the invocation rejects with when the returned promise rejects with
\* error: the function has left the try block, so nothing is logged and the
\* error passes through.
getPreSignedUrlDownload_returned(error) ==
    [entries |-> <<>>, thrown |-> error]

getPreSignedUrlDownload_then(p) ==
    /\ Awaiting(p, "getPreSignedUrlDownload", 1)
    /\ UNCHANGED service
    /\ LET url == SignedUrl(LastCall(p)) IN ResolveWith(p, url, url)

getPreSignedUrlDownload_fail(p) ==
    /\ Awaiting(p, "getPreSignedUrlDownload", 1)
    /\ \E e \in S3Errors :
        LET c == getPreSignedUrlDownload_returned(e)
        IN Reject(p, e, c.entries, c.thrown)

\* ---- getPreSignedUrlForUpload
getPreSignedUrlForUpload(p) ==
    \E key \in Keys, rest \in ExpiresInArgs :
        Begin(p, "getPreSignedUrlForUpload", [key |-> key, expiresIn |-> rest],
              getSignedUrl(s3Client, ObjectCommand("PutObject", bucketName, key),
                           expiresInParam(rest)))

getPreSignedUrlForUpload_catch(error) ==
    [entries |-> <<LogError("Failed to get pre-signed url for upload", error)>>,
     thrown |-> S3BucketException("Failed to get pre-signed url for upload",
                                  error, "getPreSignedUrlForUpload")]

getPreSignedUrlForUpload_threw(p) ==
    \E key \in Keys, rest \in ExpiresInArgs, e \in S3Errors :
        LET c == getPreSignedUrlForUpload_catch(e)
        IN BeginThrew(p, "getPreSignedUrlForUpload",
                      [key |-> key, expiresIn |-> rest],
                      getSignedUrl(s3Client, ObjectCommand("PutObject", bucketName, key),
                                   expiresInParam(rest)),
                      e, c.entries, c.thrown)

getPreSignedUrlForUpload_returned(error) ==
    [entries |-> <<>>, thrown |-> error]

getPreSignedUrlForUpload_then(p) ==
    /\ Awaiting(p, "getPreSignedUrlForUpload", 1)
    /\ UNCHANGED service
    /\ LET url == SignedUrl(LastCall(p)) IN ResolveWith(p, url, url)

getPreSignedUrlForUpload_fail(p) ==
    /\ Awaiting(p, "getPreSignedUrlForUpload", 1)
    /\ \E e \in S3Errors :
        LET c == getPreSignedUrlForUpload_returned(e)
        IN Reject(p, e, c.entries, c.thrown)

\* ============================================================ environment
\* The caller has observed the outcome; the slot is free for a new call.
Return(p) ==
    /\ pc[p] \in {"resolved", "rejected"}
    /\ op' = [op EXCEPT ![p] = "none"]
    /\ arg' = [arg EXCEPT ![p] = NoArg]
    /\ pc' = [pc EXCEPT ![p] = "idle"]
    /\ calls' = [calls EXCEPT ![p] = <<>>]
    /\ log' = [log EXCEPT ![p] = <<>>]
    /\ resp' = [resp EXCEPT ![p] = NoResp]
    /\ ret' = [ret EXCEPT ![p] = Void]
    /\ thrown' = [thrown EXCEPT ![p] = NoErr]
    /\ fault' = [fault EXCEPT ![p] = NoErr]
    /\ UNCHANGED <<config, service>>

Next ==
    \E p \in Procs :
        \/ sendMessage(p) \/ sendMessage_then(p) \/ sendMessage_fail(p)
        \/ deleteMessage(p) \/ deleteMessage_then(p) \/ deleteMessage_fail(p)
        \/ receiveMessage(p) \/ receiveMessage_then(p) \/ receiveMessage_fail(p)
        \/ sendMessageToDlq(p) \/ sendMessageToDlq_deleted(p)
        \/ sendMessageToDlq_deleteFailed(p) \/ sendMessageToDlq_sent(p)
        \/ sendMessageToDlq_sendFailed(p)
        \/ rescheduleMessage(p) \/ rescheduleMessage_deleted(p)
        \/ rescheduleMessage_deleteFailed(p) \/ rescheduleMessage_sent(p)
        \/ rescheduleMessage_sendFailed(p)
        \/ listObjects(p) \/ listObjects_then(p) \/ listObjects_fail(p)
        \/ headObject(p) \/ headObject_then(p) \/ headObject_fail(p)
        \/ uploadObject(p) \/ uploadObject_then(p) \/ uploadObject_fail(p)
        \/ downloadObject(p) \/ downloadObject_then(p) \/ downloadObject_fail(p)
        \/ deleteObject(p) \/ deleteObject_then(p) \/ deleteObject_fail(p)
        \/ getPreSignedUrlDownload(p) \/ getPreSignedUrlDownload_threw(p)
        \/ getPreSignedUrlDownload_then(p) \/ getPreSignedUrlDownload_fail(p)
        \/ getPreSignedUrlForUpload(p) \/ getPreSignedUrlForUpload_threw(p)
        \/ getPreSignedUrlForUpload_then(p) \/ getPreSignedUrlForUpload_fail(p)
        \/ Return(p)

Spec == Init /\ [][Next]_vars

\* ------------------------------------------- receipts consumed by a delete
\* The service under the assumption that a receipt handle is consumed by the
\* first successful delete: a delete call is accepted only while the message
\* is in the primary queue under that receipt, and can only fail afterwards.
ReceiptFresh(p) == arg[p].message \in primary

deleteMessage_then_fresh(p) == deleteMessage_then(p) /\ ReceiptFresh(p)

sendMessageToDlq_deleted_fresh(p) == sendMessageToDlq_deleted(p) /\ ReceiptFresh(p)

rescheduleMessage_deleted_fresh(p) == rescheduleMessage_deleted(p) /\ ReceiptFresh(p)

NextConsumed ==
    \E p \in Procs :
        \/ sendMessage(p) \/ sendMessage_then(p) \/ sendMessage_fail(p)
        \/ deleteMessage(p) \/ deleteMessage_then_fresh(p) \/ deleteMessage_fail(p)
        \/ receiveMessage(p) \/ receiveMessage_then(p) \/ receiveMessage_fail(p)
        \/ sendMessageToDlq(p) \/ sendMessageToDlq_deleted_fresh(p)
        \/ sendMessageToDlq_deleteFailed(p) \/ sendMessageToDlq_sent(p)
        \/ sendMessageToDlq_sendFailed(p)
        \/ rescheduleMessage(p) \/ rescheduleMessage_deleted_fresh(p)
        \/ rescheduleMessage_deleteFailed(p) \/ rescheduleMessage_sent(p)
        \/ rescheduleMessage_sendFailed(p)
        \/ Return(p)

SpecConsumed == Init /\ [][NextConsumed]_vars

\* ================================================================ claims
Compound(p) == op[p] \in {"sendMessageToDlq", "rescheduleMessage"}

SimpleOps ==
    {"listObjects", "headObject", "uploadObject", "downloadObject",
     "deleteObject", "sendMessage", "receiveMessage", "deleteMessage"}

PresignOps == {"getPreSignedUrlDownload", "getPreSignedUrlForUpload"}

\* The wrapped-error type of the component a method belongs to.
ComponentOf(o) ==
    IF o \in {"sendMessage", "receiveMessage", "deleteMessage",
              "sendMessageToDlq", "rescheduleMessage"}
    THEN "SqsQueueException" ELSE "S3BucketException"

\* The fixed message of the error a compound operation makes itself.
CompoundMessage(o) ==
    IF o = "sendMessageToDlq" THEN "Failed to send message to DLQ"
    ELSE "Failed to reschedule message"

\* The fixed warning a compound operation logs.
CompoundWarning(o) ==
    IF o = "sendMessageToDlq"
    THEN "Failed to send message to DLQ while deleting message from original queue"
    ELSE "Failed to reschedule message while deleting message from queue"

\* The delete step of compound invocation p failed.
DeleteStepFailed(p) == Compound(p) /\ pc[p] = "rejected" /\ Len(calls[p]) = 1

\* The delete step succeeded and the send step of compound invocation p failed.
SendStepFailed(p) == Compound(p) /\ pc[p] = "rejected" /\ Len(calls[p]) = 2

Levels(entries) == {entries[i].level : i \in 1..Len(entries)}

\* C1: a successful sendMessageToDlq has issued exactly two calls, in this
\* order: a delete on the primary queue URL with the message's receipt
\* handle, then a send to the dead-letter queue URL with the message's body
\* and no delay parameter.
C1_DlqSuccessCalls ==
    \A p \in Procs :
        (op[p] = "sendMessageToDlq" /\ pc[p] = "resolved") =>
            /\ Len(calls[p]) = 2
            /\ calls[p][1].cmd = "DeleteMessage"
            /\ calls[p][1].QueueUrl = PrimaryUrl
            /\ calls[p][1].ReceiptHandle = arg[p].message.ReceiptHandle
            /\ calls[p][2].cmd = "SendMessage"
            /\ calls[p][2].QueueUrl = DlqUrl
            /\ calls[p][2].MessageBody = arg[p].message.Body
            /\ "DelaySeconds" \notin DOMAIN calls[p][2]

C1_Witness ==
    \E p \in Procs :
        /\ op[p] = "sendMessageToDlq" /\ pc[p] = "resolved"
        /\ arg[p].message = Message(MaxMsgs)
        /\ Message(MaxMsgs).Body \in dlq

\* C2: a successful rescheduleMessage has issued exactly two calls, in this
\* order: a delete on the primary queue URL with the message's receipt
\* handle, then a send to the same primary queue URL with the same body and
\* a delay of exactly 30 seconds.
C2_RescheduleSuccessCalls ==
    \A p \in Procs :
        (op[p] = "rescheduleMessage" /\ pc[p] = "resolved") =>
            /\ Len(calls[p]) = 2
            /\ calls[p][1].cmd = "DeleteMessage"
            /\ calls[p][1].QueueUrl = PrimaryUrl
            /\ calls[p][1].ReceiptHandle = arg[p].message.ReceiptHandle
            /\ calls[p][2].cmd = "SendMessage"
            /\ calls[p][2].QueueUrl = PrimaryUrl
            /\ calls[p][2].MessageBody = arg[p].message.Body
            /\ "DelaySeconds" \in DOMAIN calls[p][2]
            /\ calls[p][2].DelaySeconds = 30

C2_Witness ==
    \E p \in Procs :
        /\ op[p] = "rescheduleMessage" /\ pc[p] = "resolved"
        /\ arg[p].message = Message(MaxMsgs)
        /\ Message(MaxMsgs).Body \in delayed

\* C3 as stated: when the delete step of a compound operation fails with
\* an SqsQueueException, that object is re-raised by reference and what is
\* logged for the failure is at warning severity, not error severity, with
\* the operation's fixed warning message.
C3_Original ==
    \A p \in Procs :
        DeleteStepFailed(p) =>
            /\ thrown[p] = SqsQueueException("Failed to delete message", fault[p],
                                             "deleteMessage")
            /\ Levels(log[p]) = {"warn"}
            /\ \A i \in 1..Len(log[p]) : log[p][i].text = CompoundWarning(op[p])

\* C3 as amended: when the delete step of a compound operation fails,
\* deleteMessage has logged the failure at error severity and raised its
\* SqsQueueException; the compound operation re-raises that object by
\* reference (no second wrapper) and adds exactly one entry of its own, at
\* warning severity with its fixed warning message.
C3_DeleteFailureRethrown ==
    \A p \in Procs :
        DeleteStepFailed(p) =>
            /\ thrown[p] = SqsQueueException("Failed to delete message", fault[p],
                                             "deleteMessage")
            /\ Len(log[p]) = 2
            /\ log[p][1].level = "error"
            /\ log[p][1].text = "Failed to delete message from SQS queue"
            /\ log[p][2] = LogWarn(CompoundWarning(op[p]))

C3_Witness ==
    \E p \in Procs :
        /\ DeleteStepFailed(p) /\ op[p] = "sendMessageToDlq"
        /\ fault[p].type = "SqsQueueException"
        /\ thrown[p].origin = "deleteMessage"

\* C4 as stated: when the underlying delete call of a compound operation
\* fails with an error that is not an SqsQueueException, the operation
\* raises a fresh error with its own fixed message and the underlying error
\* as cause, and logs at error severity.
C4_Original ==
    \A p \in Procs :
        (DeleteStepFailed(p) /\ fault[p].type # "SqsQueueException") =>
            /\ thrown[p].message = CompoundMessage(op[p])
            /\ thrown[p].cause = fault[p]
            /\ log[p][Len(log[p])].level = "error"

\* C4 as amended: when the underlying delete call of a compound operation
\* fails with an error that is not an SqsQueueException, the operation
\* raises the SqsQueueException of deleteMessage, with message 'Failed to
\* delete message' and the underlying error as cause, not one with its own
\* message; the only error-level entry is deleteMessage's, rendering the
\* underlying error, and the compound operation itself logs its warning.
C4_DeleteFailureKeepsDeleteError ==
    \A p \in Procs :
        (DeleteStepFailed(p) /\ fault[p].type # "SqsQueueException") =>
            /\ thrown[p].type = "SqsQueueException"
            /\ thrown[p].message = "Failed to delete message"
            /\ thrown[p].message # CompoundMessage(op[p])
            /\ thrown[p].cause = fault[p]
            /\ \A i \in 1..Len(log[p]) :
                 log[p][i].level = "error" =>
                    log[p][i] = LogError("Failed to delete message from SQS queue",
                                         fault[p])
            /\ log[p][Len(log[p])].level = "warn"

C4_Witness ==
    \E p \in Procs :
        /\ DeleteStepFailed(p) /\ op[p] = "rescheduleMessage"
        /\ fault[p].type = "Error"
        /\ thrown[p].cause = fault[p]

\* C5: when the delete step succeeded and the send of a compound operation
\* fails with an error of any type, an SqsQueueException included, the
\* operation raises a fresh SqsQueueException of its own whose cause is the
\* send's error, and logs at error severity.
C5_SendFailureWrapped ==
    \A p \in Procs :
        SendStepFailed(p) =>
            /\ thrown[p] = SqsQueueException(CompoundMessage(op[p]), fault[p], op[p])
            /\ thrown[p] # fault[p]
            /\ Len(log[p]) = 1
            /\ log[p][1].level = "error"

\* C6: a simple operation whose underlying call failed with error e rejects
\* with the wrapped error of its own component whose cause is exactly e,
\* never with e itself, and never resolves.
C6_SimpleFailureWrapped ==
    \A p \in Procs :
        (op[p] \in SimpleOps /\ (pc[p] = "rejected" \/ fault[p] # NoErr)) =>
            /\ pc[p] = "rejected"
            /\ fault[p] \in ClientErrors \cup S3Errors
            /\ thrown[p].type = ComponentOf(op[p])
            /\ thrown[p].cause = fault[p]
            /\ thrown[p] # fault[p]

C6_Witness ==
    \E p \in Procs, q \in Procs :
        /\ op[p] = "deleteObject" /\ pc[p] = "rejected"
        /\ thrown[p].type = "S3BucketException"
        /\ op[q] = "sendMessage" /\ pc[q] = "rejected"
        /\ fault[q].type = "SqsQueueException"

\* C7: every failure of the URL-signing helper, thrown synchronously or
\* delivered by a promise that rejects, makes the pre-signed URL operation
\* reject with an S3BucketException whose cause is the helper's error, after
\* one error-level log entry; the helper's error never reaches the caller.
C7_SignFailureWrapped ==
    \A p \in Procs :
        (op[p] \in PresignOps /\ pc[p] = "rejected") =>
            /\ thrown[p].type = "S3BucketException"
            /\ thrown[p].cause = fault[p]
            /\ thrown[p] # fault[p]
            /\ Len(log[p]) = 1
            /\ log[p][1].level = "error"

\* C8: the compound operations are not atomic and have no compensation:
\* once the delete of a compound invocation was accepted, the message is
\* never put back into the primary queue under its receipt, and the
\* invocation issues no call beyond its one send, also when that send
\* fails; the message can therefore be gone from the primary queue without
\* having reached its destination (C8_Witness).
C8_NoCompensation ==
    [][ /\ primary' \subseteq primary
        /\ \A p \in Procs :
             (Compound(p) /\ Len(calls[p]) = 2) =>
                /\ arg[p].message \notin primary
                /\ Len(calls'[p]) \in {0, 2}
                /\ (Len(calls'[p]) = 2 => calls'[p] = calls[p])
                /\ (pc[p] = "rejected" => pc'[p] \in {"rejected", "idle"})
      ]_vars

\* One invocation stopped between the delete and the send, another had its
\* send fail: both messages are gone from the primary queue and neither has
\* reached the dead-letter queue or a delayed redelivery.
C8_Witness ==
    \E p \in Procs, q \in Procs :
        /\ op[p] = "sendMessageToDlq" /\ pc[p] = "await" /\ Len(calls[p]) = 2
        /\ op[q] = "rescheduleMessage" /\ SendStepFailed(q)
        /\ arg[p].message # arg[q].message
        /\ {arg[p].message, arg[q].message} \cap primary = {}
        /\ dlq = {} /\ delayed = {}

\* The error-level entries of a log.
ErrorEntries(entries) == {i \in 1..Len(entries) : entries[i].level = "error"}

\* C12: every failure of an underlying client or helper call, in every
\* operation, has produced exactly one error-level log entry, and that entry
\* renders the error the call failed with; never zero, never more than one.
C12_OneErrorEntry ==
    \A p \in Procs :
        fault[p] # NoErr =>
            /\ Cardinality(ErrorEntries(log[p])) = 1
            /\ \A i \in ErrorEntries(log[p]) : log[p][i].error = fault[p]

\* A successful response whose result collection is missing or empty.
NoCollection(response, field) ==
    IF field \in DOMAIN response THEN response[field] = <<>> ELSE TRUE

\* C13: when the service answered listObjects or receiveMessage, the
\* operation has resolved (it never fails on the answer): with the empty
\* sequence when Contents / Messages is missing or empty, otherwise with the
\* service's collection itself, same elements in the same order.
C13_EmptyOrUnchanged ==
    \A p \in Procs :
        /\ (op[p] = "listObjects" /\ resp[p] # NoResp) =>
              /\ pc[p] = "resolved" /\ thrown[p] = NoErr
              /\ ret[p] = IF NoCollection(resp[p], "Contents")
                          THEN <<>> ELSE resp[p].Contents
        /\ (op[p] = "receiveMessage" /\ resp[p] # NoResp) =>
              /\ pc[p] = "resolved" /\ thrown[p] = NoErr
              /\ ret[p] = IF NoCollection(resp[p], "Messages")
                          THEN <<>> ELSE resp[p].Messages

\* A list answered without Contents, and a receive answered with two
\* messages not in id order.
C13_Witness ==
    \E p \in Procs, q \in Procs :
        /\ op[p] = "listObjects" /\ pc[p] = "resolved"
        /\ "Contents" \notin DOMAIN resp[p] /\ ret[p] = <<>>
        /\ op[q] = "receiveMessage" /\ pc[q] = "resolved"
        /\ ret[q] = <<Message(2), Message(1)>>

\* C14: no retries and no swallowed error: an invocation one of whose
\* underlying calls failed is rejected in the step that sees the failure,
\* that step and every later one issue no further underlying call for it,
\* it stays rejected with the same error until the caller takes the outcome,
\* and no resolved invocation has a failed call behind it.
C14_NoRetryNoSwallow ==
    [][ \A p \in Procs :
          /\ (pc[p] = "resolved" => fault[p] = NoErr)
          /\ (pc[p] = "rejected" => fault[p] # NoErr)
          /\ (fault'[p] # NoErr => pc'[p] = "rejected")
          /\ ((pc[p] = "await" /\ pc'[p] = "rejected") => calls'[p] = calls[p])
          /\ (pc[p] = "rejected" =>
                \/ pc'[p] = "idle"
                \/ /\ pc'[p] = "rejected" /\ calls'[p] = calls[p]
                   /\ thrown'[p] = thrown[p] /\ ret'[p] = Void)
      ]_vars

\* A failed upload and a failed receive, each rejected after its one call.
C14_Witness ==
    \E p \in Procs, q \in Procs :
        /\ op[p] = "uploadObject" /\ pc[p] = "rejected" /\ Len(calls[p]) = 1
        /\ op[q] = "receiveMessage" /\ pc[q] = "rejected" /\ Len(calls[q]) = 1
        /\ ret[p] = Void /\ ret[q] = Void

\* Compound invocation p has issued its send.
SendIssued(p) == Compound(p) /\ Len(calls[p]) = 2

\* C15: in a compound invocation the first call is the delete and a send is
\* only ever its second call, issued in the step in which the delete was
\* accepted and the message left the primary queue; the step in which the
\* delete fails issues no call and leaves every queue as it was.
C15_SendAfterDelete ==
    [][ \A p \in Procs :
          /\ Compound(p) =>
                /\ calls[p][1].cmd = "DeleteMessage"
                /\ \A i \in 1..Len(calls[p]) :
                     calls[p][i].cmd = "SendMessage" =>
                        i = 2 /\ arg[p].message \notin primary
          /\ (Compound(p) /\ Len(calls[p]) = 1 /\ Len(calls'[p]) = 2) =>
                /\ pc[p] = "await" /\ pc'[p] = "await"
                /\ arg[p].message \notin primary'
          /\ (Compound(p) /\ pc[p] = "await" /\ Len(calls[p]) = 1
                /\ pc'[p] = "rejected") =>
                /\ calls'[p] = calls[p]
                /\ primary' = primary /\ dlq' = dlq /\ delayed' = delayed
      ]_vars

\* One invocation whose delete failed with its message still queued, and
\* another whose delete was accepted and whose send is pending.
C15_Witness ==
    \E p \in Procs, q \in Procs :
        /\ DeleteStepFailed(p) /\ arg[p].message \in primary
        /\ SendIssued(q) /\ pc[q] = "await" /\ arg[q].message \notin primary
        /\ dlq = {} /\ delayed = {}

\* The fields of the instance's record of invocation p.
Local(p) ==
    <<op[p], arg[p], pc[p], calls[p], log[p], resp[p], ret[p], thrown[p], fault[p]>>

LocalNext(p) ==
    <<op'[p], arg'[p], pc'[p], calls'[p], log'[p], resp'[p], ret'[p],
      thrown'[p], fault'[p]>>

\* Call c carries the instance's fixed queue URL, bucket or client handle.
CarriesConfig(c) ==
    CASE c.cmd \in {"SendMessage", "DeleteMessage", "ReceiveMessage"} ->
            c.QueueUrl \in {PrimaryUrl, DlqUrl}
      [] c.cmd = "getSignedUrl" ->
            c.client = S3Client /\ c.command.Bucket = Bucket
      [] c.cmd = "Upload" -> c.client = S3Client /\ c.Bucket = Bucket
      [] OTHER -> c.Bucket = Bucket

\* C17: no step changes the configuration set at construction (client
\* handles, queue URLs, bucket name); every underlying call of every
\* invocation carries those fixed values; and a step of one invocation
\* changes nothing of any other invocation's calls, result or error.
C17_ConfigFixed ==
    [][ /\ config' = config
        /\ config = <<SQSClient, PrimaryUrl, DlqUrl, S3Client, Bucket>>
        /\ \A p \in Procs : \A i \in 1..Len(calls'[p]) : CarriesConfig(calls'[p][i])
        /\ \A p \in Procs, q \in Procs :
             (p # q /\ LocalNext(p) # Local(p)) => LocalNext(q) = Local(q)
      ]_vars

\* Two invocations in flight at once on the one instance, one per facade.
C17_Witness ==
    \E p \in Procs, q \in Procs :
        /\ op[p] = "rescheduleMessage" /\ pc[p] = "resolved"
        /\ op[q] = "uploadObject" /\ pc[q] = "await"
        /\ calls[p][2].QueueUrl = queueUrl /\ calls[q][1].Bucket = bucketName

\* The one call a pre-signed URL invocation makes.
PresignCall(p) ==
    getSignedUrl(S3Client,
                 ObjectCommand(IF op[p] = "getPreSignedUrlDownload"
                               THEN "GetObject" ELSE "PutObject",
                               Bucket, arg[p].key),
                 IF arg[p].expiresIn = <<>> THEN 900 ELSE arg[p].expiresIn[1])

\* C18: a pre-signed URL invocation, succeeding or failing, has made exactly
\* one call, the delegation to the signing helper with the fixed bucket, the
\* given key and the given expiry (900 when omitted), and no call to the
\* object-storage client; it resolves with the helper's URL unchanged; and
\* none of its steps changes the configuration or the services' state.
C18_PresignFrame ==
    [][ \A p \in Procs :
          /\ op[p] \in PresignOps =>
                /\ calls[p] = <<PresignCall(p)>>
                /\ pc[p] = "resolved" => (resp[p] # NoResp /\ ret[p] = resp[p])
          /\ (op'[p] \in PresignOps /\ LocalNext(p) # Local(p)) =>
                /\ config' = config
                /\ primary' = primary /\ dlq' = dlq /\ delayed' = delayed
      ]_vars

\* An upload URL made with the default expiry and a download URL request
\* that failed with a given expiry.
C18_Witness ==
    \E p \in Procs, q \in Procs :
        /\ op[p] = "getPreSignedUrlForUpload" /\ pc[p] = "resolved"
        /\ arg[p].expiresIn = <<>> /\ calls[p][1].expiresIn = 900
        /\ ret[p] = <<"url", "PutObject", Bucket, arg[p].key, 900>>
        /\ op[q] = "getPreSignedUrlDownload" /\ pc[q] = "rejected"
        /\ arg[q].expiresIn = <<60>> /\ calls[q][1].expiresIn = 60

\* C19: assuming a receipt is consumed by the first successful delete
\* (SpecConsumed): a compound send is issued for a message only in a step
\* that takes the message out of the primary queue, and no message ever
\* returns there, so at most one send is issued per message over all
\* invocations; at no time have two invocations issued a send for the same
\* message, and a message still in the primary queue has no send issued and
\* is in no destination.
C19_NoDuplication ==
    /\ [](\A m \in Messages :
            /\ Cardinality({p \in Procs : SendIssued(p) /\ arg[p].message = m}) <= 1
            /\ m \in primary =>
                 /\ m.Body \notin dlq \cup delayed
                 /\ \A p \in Procs : SendIssued(p) => arg[p].message # m)
    /\ [][ /\ primary' \subseteq primary
           /\ \A p \in Procs :
                (Len(calls'[p]) = 2 /\ Len(calls[p]) # 2) =>
                   /\ arg[p].message \in primary
                   /\ arg[p].message \notin primary'
       ]_vars

\* The same message handled twice: the first invocation sent it to the
\* dead-letter queue, the second one's delete with the consumed receipt
\* failed and nothing was sent again.
C19_Witness ==
    \E p \in Procs, q \in Procs :
        /\ op[p] = "sendMessageToDlq" /\ pc[p] = "resolved"
        /\ op[q] = "rescheduleMessage" /\ DeleteStepFailed(q)
        /\ arg[p].message = arg[q].message
        /\ arg[p].message.Body \in dlq /\ delayed = {}

PrimaryOnlyOps == {"sendMessage", "receiveMessage", "deleteMessage", "rescheduleMessage"}

\* C21: each queue operation touches only its own queues: no call of
\* sendMessage, receiveMessage, deleteMessage or rescheduleMessage carries the
\* dead-letter queue URL; sendMessageToDlq sends only to the dead-letter
\* queue and deletes (and never receives) only on the primary queue; and only
\* a send of rescheduleMessage carries a delay.
C21_QueueFrame ==
    \A p \in Procs : \A i \in 1..Len(calls[p]) :
        LET c == calls[p][i] IN
        /\ op[p] \in PrimaryOnlyOps => c.QueueUrl = PrimaryUrl /\ c.QueueUrl # DlqUrl
        /\ op[p] = "sendMessageToDlq" =>
              /\ c.cmd \in {"DeleteMessage", "SendMessage"}
              /\ c.cmd = "SendMessage" => c.QueueUrl = DlqUrl /\ c.QueueUrl # PrimaryUrl
              /\ c.cmd = "DeleteMessage" => c.QueueUrl = PrimaryUrl /\ c.QueueUrl # DlqUrl
        /\ "DelaySeconds" \in DOMAIN c =>
              op[p] = "rescheduleMessage" /\ c.cmd = "SendMessage"

\* A dead-letter send and a delayed re-send pending at the same time, each
\* after its delete on the primary queue.
C21_Witness ==
    \E p \in Procs, q \in Procs :
        /\ op[p] = "sendMessageToDlq" /\ SendIssued(p) /\ pc[p] = "await"
        /\ calls[p][1].QueueUrl = PrimaryUrl /\ calls[p][2].QueueUrl = DlqUrl
        /\ op[q] = "rescheduleMessage" /\ SendIssued(q) /\ pc[q] = "await"
        /\ calls[q][2].QueueUrl = PrimaryUrl /\ calls[q][2].DelaySeconds = 30

====
